---- MODULE Spec2Model ----
(***************************************************************************)
(* Model of CryptoPanicScraper (src/cryptopanic_scraper.py): the           *)
(* pagination loop of fetch_news, the persister save_to_files and the      *)
(* driver run.  One action per step of the code; the HTTP responses, the   *)
(* object-store outcome and the configuration are the inputs.              *)
(***************************************************************************)
EXTENDS Integers, Sequences, FiniteSets, TLC

\* ---------------------------------------------------------------- bounds
\* Total number of items the API returns during one fetch_news call.
MaxItems == 3
\* Page counters at or above MaxPage are identified (the code compares the
\* page only with PageCeiling, so all pages above it behave alike).
MaxPage == 14

\* ------------------------------------------------------ program constants
\* "page > 11" in fetch_news.
PageCeiling == 11
\* response.status_code the code accepts.
HTTP_OK == 200

\* ----------------------------------------------------------------- inputs
\* Instants are integers.
\* Configurations of a run: start_date, end_date, bucket_name (None, the
\* empty string, or a bucket) and the prior content of the local file.
Configs ==
    { <<1, 2, "None", "old">>,
      <<1, 2, "cryptopanic-scraper", "absent">>,
      <<2, 2, "", "absent">>,
      <<2, 2, "cryptopanic-scraper", "old">> }
\* Status codes the endpoint answers with.
Statuses == {200, 429, 503}
\* Outcomes of s3_client.put_object.
PutOutcomes == {"ok", "ClientError"}

\* published_at as it arrives: a string in the format %Y-%m-%dT%H:%M:%SZ
\* denoting instant t, a string in another format, or a missing key (None).
Iso(t) == [fmt |-> "iso", t |-> t]
BadFormat == [fmt |-> "bad", t |-> 0]
Missing == [fmt |-> "None", t |-> 0]

\* Items of the "results" array.
ApiPosts ==
    { [published_at |-> Iso(0), title |-> "a"],
      [published_at |-> Iso(1), title |-> "a"],
      [published_at |-> Iso(2), title |-> "b"],
      [published_at |-> Iso(3), title |-> "b"],
      [published_at |-> BadFormat, title |-> "a"],
      [published_at |-> Missing, title |-> "b"] }

SeqsUpTo(S, n) == UNION { [1..k -> S] : k \in 0..n }

VARIABLES
    pc,            \* position of the run
    start_date, end_date, bucket_name,   \* configuration (__init__)
    page, posts, finished,               \* locals of fetch_news
    data, idx,     \* results of the current response, items already iterated
    status,        \* status_code of the last response (0: none yet)
    all_posts,     \* value returned by fetch_news, as bound in run
    requested,     \* pages requested so far, in order
    received,      \* items received in 200 responses, in order
    log,           \* logger.error / logger.info records
    s3_puts,       \* bodies passed to put_object
    put_outcome,   \* outcome of the last put_object ("none": not called)
    local_writes,  \* number of times the local file was opened for writing
    local_file,    \* content of the file named file_name
    save_calls,    \* number of calls of save_to_files
    save_arg,      \* news_list of the last call
    save_ret,      \* value returned by save_to_files
    s_pc, s_page, s_posts, s_finished, s_requested, s_ret
                   \* the same fetch run on the responses without their
                   \* unparseable items

vars == <<pc, start_date, end_date, bucket_name, page, posts, finished,
          data, idx, status, all_posts, requested, received, log, s3_puts,
          put_outcome, local_writes, local_file, save_calls, save_arg,
          save_ret, s_pc, s_page, s_posts, s_finished, s_requested, s_ret>>

config == <<start_date, end_date, bucket_name>>
fetchLocals == <<page, posts, finished, data, idx>>
saveState == <<s3_puts, put_outcome, local_writes, local_file, save_calls,
               save_arg, save_ret>>
shadow == <<s_pc, s_page, s_posts, s_finished, s_requested, s_ret>>

\* ---------------------------------------------------------- pure helpers
\* datetime.strptime(published_at, "%Y-%m-%dT%H:%M:%SZ"): raises on None and
\* on any other format.
strptime(s) ==
    IF s.fmt = "iso" THEN [ok |-> TRUE, t |-> s.t] ELSE [ok |-> FALSE, t |-> 0]

\* published_at.isoformat() of a UTC-aware datetime.
isoformat(t) == <<t, "+00:00">>

\* The dict appended to posts.
NewsRecord(t, title) == [date |-> isoformat(t), text |-> <<title, "\n">>]

\* Variant of InWindow with exclusive bounds.
InWindow_strict(t) == start_date < t /\ t < end_date
\* self.start_date <= published_at <= self.end_date
InWindow(t) == start_date <= t /\ t <= end_date

\* published_at < self.start_date or page > 11
SetsFlag(t, p) == t < start_date \/ p > PageCeiling

\* Variant of ProcessPost testing the page ceiling before the parse.
ProcessPost_ceilingFirst(post, p, ps, fin) ==
    LET d == strptime(post.published_at) IN
    IF ~d.ok THEN [posts |-> ps, finished |-> (fin \/ p > PageCeiling)]
    ELSE [posts |-> IF InWindow(d.t)
                    THEN Append(ps, NewsRecord(d.t, post.title)) ELSE ps,
          finished |-> (fin \/ SetsFlag(d.t, p))]
\* Variant of ProcessPost appending nothing once finished is set.
ProcessPost_breakOnOld(post, p, ps, fin) ==
    LET d == strptime(post.published_at) IN
    IF ~d.ok THEN [posts |-> ps, finished |-> fin]
    ELSE [posts |-> IF InWindow(d.t) /\ ~fin
                    THEN Append(ps, NewsRecord(d.t, post.title)) ELSE ps,
          finished |-> (fin \/ SetsFlag(d.t, p))]
\* One iteration of "for post in data.get('results', [])": the new posts
\* and finished.
ProcessPost(post, p, ps, fin) ==
    LET d == strptime(post.published_at) IN
    IF ~d.ok THEN [posts |-> ps, finished |-> fin]
    ELSE [posts |-> IF InWindow(d.t)
                    THEN Append(ps, NewsRecord(d.t, post.title)) ELSE ps,
          finished |-> (fin \/ SetsFlag(d.t, p))]

\* page += 1, with the counters at or above MaxPage identified.
NextPage(p) == IF p < MaxPage THEN p + 1 ELSE p
Requested(rq, p) == IF Len(rq) < MaxPage THEN Append(rq, p) ELSE rq

\* Variant of FailReturn returning the records accumulated so far.
FailReturn_partial(ps) == ps
\* "return []" after a non-200 status.
FailReturn(ps) == <<>>

\* json.dumps(news_list, indent=4, ensure_ascii=False)
dumps(news_list) == [indent |-> 4, ensure_ascii |-> FALSE, array |-> news_list]

\* cryptopanic_<start:%Y-%m-%d>_<end - 1 day:%Y-%m-%d>.json
file_name == <<"cryptopanic", start_date, end_date - 1, "json">>
\* <start:%Y/%m/%d>/<file_name>
s3_key == <<start_date, file_name>>

\* Python truthiness of self.bucket_name.
Truthy(b) == b # "None" /\ b # ""

\* Variant of LocalFallback writing locally when the upload fails.
LocalFallback_onError(b, outcome) == ~Truthy(b) \/ outcome = "ClientError"
\* The else branch of "if self.bucket_name": the local write.
LocalFallback(b, outcome) == ~Truthy(b)

\* Variant of SaveReturn returning a success flag.
SaveReturn_bool(outcome) == IF outcome = "ClientError" THEN "False" ELSE "True"
\* save_to_files has no return statement.
SaveReturn(outcome) == "None"

\* ------------------------------------------------------------------ Init
Init ==
    /\ pc = "run"
    /\ \E c \in Configs :
          /\ start_date = c[1] /\ end_date = c[2]
          /\ bucket_name = c[3] /\ local_file = c[4]
    /\ page = 1 /\ posts = <<>> /\ finished = FALSE
    /\ data = <<>> /\ idx = 0
    /\ status = 0
    /\ all_posts = <<>>
    /\ requested = <<>> /\ received = <<>>
    /\ log = <<>>
    /\ s3_puts = <<>> /\ put_outcome = "none"
    /\ local_writes = 0
    /\ save_calls = 0 /\ save_arg = <<>> /\ save_ret = "unset"
    /\ s_pc = "run" /\ s_page = 1 /\ s_posts = <<>> /\ s_finished = FALSE
    /\ s_requested = <<>> /\ s_ret = <<>>

\* --------------------------------------------------------------- actions
\* run: all_posts = self.fetch_news() is entered; page = 1, posts = [].
Run ==
    /\ pc = "run"
    /\ pc' = "while"
    /\ page' = 1 /\ posts' = <<>>
    /\ s_pc' = "while" /\ s_page' = 1 /\ s_posts' = <<>>
    /\ log' = Append(log, <<"info", "started">>)
    /\ UNCHANGED <<config, finished, data, idx, status, all_posts, requested,
                   received, saveState, s_finished, s_requested, s_ret>>

\* Top of "while True": finished = False, requests.get answers 200.
GetOk ==
    /\ pc = "while"
    /\ \E results \in SeqsUpTo(ApiPosts, MaxItems - Len(received)) :
          /\ data' = results
          /\ received' = received \o results
    /\ idx' = 0
    /\ finished' = FALSE
    /\ status' = HTTP_OK
    /\ requested' = Requested(requested, page)
    /\ pc' = "for"
    /\ IF s_pc = "while"
       THEN /\ s_pc' = "for" /\ s_finished' = FALSE
            /\ s_requested' = Requested(s_requested, s_page)
       ELSE UNCHANGED <<s_pc, s_finished, s_requested>>
    /\ UNCHANGED <<config, page, posts, all_posts, log, saveState,
                   s_page, s_posts, s_ret>>

\* requests.get answers a status other than 200: log, return [].
GetFail ==
    /\ pc = "while"
    /\ \E st \in Statuses \ {HTTP_OK} :
          /\ status' = st
          /\ log' = Append(log, <<"error", "http", st>>)
    /\ finished' = FALSE
    /\ requested' = Requested(requested, page)
    /\ all_posts' = FailReturn(posts)
    /\ pc' = "returned"
    /\ IF s_pc = "while"
       THEN /\ s_pc' = "returned" /\ s_finished' = FALSE
            /\ s_requested' = Requested(s_requested, s_page)
            /\ s_ret' = FailReturn(s_posts)
       ELSE UNCHANGED <<s_pc, s_finished, s_requested, s_ret>>
    /\ UNCHANGED <<config, page, posts, data, idx, received, saveState,
                   s_page, s_posts>>

\* One iteration of the for loop over the results.
ForPost ==
    /\ pc = "for"
    /\ idx < Len(data)
    /\ LET post == data[idx + 1]
           ok == strptime(post.published_at).ok
           r == ProcessPost(post, page, posts, finished)
           s == ProcessPost(post, s_page, s_posts, s_finished)
       IN /\ posts' = r.posts
          /\ finished' = r.finished
          /\ log' = IF ok THEN log ELSE Append(log, <<"error", "parse">>)
          /\ IF ok /\ s_pc = "for"
             THEN s_posts' = s.posts /\ s_finished' = s.finished
             ELSE UNCHANGED <<s_posts, s_finished>>
    /\ idx' = idx + 1
    /\ UNCHANGED <<pc, config, page, data, status, all_posts, requested,
                   received, saveState, s_pc, s_page, s_requested, s_ret>>

\* The counterpart of the end of a page in the run without the
\* unparseable items.
ShadowEndPage ==
    IF s_pc = "for"
    THEN IF s_finished
         THEN /\ s_pc' = "returned" /\ s_ret' = s_posts
              /\ UNCHANGED s_page
         ELSE /\ s_pc' = "while" /\ s_page' = NextPage(s_page)
              /\ UNCHANGED s_ret
    ELSE UNCHANGED <<s_pc, s_page, s_ret>>

\* End of the for loop with finished set: break, return posts.
EndPageBreak ==
    /\ pc = "for"
    /\ idx = Len(data)
    /\ finished
    /\ all_posts' = posts
    /\ pc' = "returned"
    /\ ShadowEndPage
    /\ UNCHANGED <<config, fetchLocals, status, requested, received, log,
                   saveState, s_posts, s_finished, s_requested>>

\* End of the for loop with finished unset: page += 1, next iteration.
EndPageNext ==
    /\ pc = "for"
    /\ idx = Len(data)
    /\ ~finished
    /\ page' = NextPage(page)
    /\ pc' = "while"
    /\ ShadowEndPage
    /\ UNCHANGED <<config, posts, finished, data, idx, status, all_posts,
                   requested, received, log, saveState, s_posts, s_finished,
                   s_requested>>

\* save_to_files(all_posts) with a bucket: one put_object, which succeeds or
\* raises ClientError (caught and logged).
SaveS3 ==
    /\ pc = "returned"
    /\ Truthy(bucket_name)
    /\ \E outcome \in PutOutcomes :
          /\ put_outcome' = outcome
          /\ s3_puts' = Append(s3_puts, [Bucket |-> bucket_name, Key |-> s3_key,
                                         Body |-> dumps(all_posts)])
          /\ log' = Append(log, IF outcome = "ok" THEN <<"info", "uploaded">>
                                ELSE <<"error", "s3">>)
          /\ IF LocalFallback(bucket_name, outcome)
             THEN /\ local_writes' = local_writes + 1
                  /\ local_file' = dumps(all_posts)
             ELSE UNCHANGED <<local_writes, local_file>>
          /\ save_ret' = SaveReturn(outcome)
    /\ save_calls' = save_calls + 1
    /\ save_arg' = all_posts
    /\ pc' = "done"
    /\ UNCHANGED <<config, fetchLocals, status, all_posts, requested, received,
                   shadow>>

\* save_to_files(all_posts) without a bucket: the file is opened with 'w'
\* and the document written.
SaveLocal ==
    /\ pc = "returned"
    /\ LocalFallback(bucket_name, "none")
    /\ local_writes' = local_writes + 1
    /\ local_file' = dumps(all_posts)
    /\ log' = Append(log, <<"info", "saved">>)
    /\ save_ret' = SaveReturn("none")
    /\ save_calls' = save_calls + 1
    /\ save_arg' = all_posts
    /\ pc' = "done"
    /\ UNCHANGED <<config, fetchLocals, status, all_posts, requested, received,
                   s3_puts, put_outcome, shadow>>

Next ==
    \/ Run
    \/ GetOk
    \/ GetFail
    \/ ForPost
    \/ EndPageBreak
    \/ EndPageNext
    \/ SaveS3
    \/ SaveLocal

Spec == Init /\ [][Next]_vars

\* Every request completes and the single thread keeps running.
FairSpec == Spec /\ WF_vars(Next)

\* ------------------------------------------------- definitions for claims
Parseable(post) == strptime(post.published_at).ok
TimeOf(post) == strptime(post.published_at).t
DateOf(rec) == rec.date[1]
Aborted == status # 0 /\ status # HTTP_OK
Returned == pc \in {"returned", "done"}

\* The page held an item whose timestamp precedes start_date.
HasOld(d) == \E j \in 1..Len(d) : Parseable(d[j]) /\ TimeOf(d[j]) < start_date

\* Items of the received responses the for loop has iterated over.
Iterated == SubSeq(received, 1, Len(received) - (Len(data) - idx))

\* The records of the items with a parseable timestamp inside
\* [start_date, end_date], in the order of the items.
WindowRecords(items) ==
    LET Keep(post) == /\ post.published_at.fmt = "iso"
                      /\ post.published_at.t >= start_date
                      /\ post.published_at.t <= end_date
        kept == SelectSeq(items, Keep)
    IN [i \in 1..Len(kept) |->
           [date |-> <<kept[i].published_at.t, "+00:00">>,
            text |-> <<kept[i].title, "\n">>]]

\* C1: one call of fetch_news issues at most 12 HTTP GET requests, whatever
\* the responses hold (empty pages and pages of unparseable items included).
C1_AtMost12Requests == Len(requested) <= PageCeiling + 1

\* C2: every record accumulated in posts (and returned) has
\* start_date <= date <= end_date, and an item dated exactly start_date or
\* exactly end_date is appended.
C2_WindowInclusive ==
    /\ [](/\ \A i \in 1..Len(posts) :
               start_date <= DateOf(posts[i]) /\ DateOf(posts[i]) <= end_date
          /\ \A i \in 1..Len(all_posts) :
               start_date <= DateOf(all_posts[i])
               /\ DateOf(all_posts[i]) <= end_date)
    /\ [][(/\ pc = "for" /\ idx < Len(data)
           /\ Parseable(data[idx + 1])
           /\ TimeOf(data[idx + 1]) \in {start_date, end_date})
          => posts' = Append(posts, NewsRecord(TimeOf(data[idx + 1]),
                                               data[idx + 1].title))]_vars
C2_Witness ==
    /\ pc = "done" /\ start_date < end_date
    /\ \E i, j \in 1..Len(save_arg) :
          DateOf(save_arg[i]) = start_date /\ DateOf(save_arg[j]) = end_date
    /\ \E k \in 1..Len(received) :
          Parseable(received[k]) /\ ~InWindow(TimeOf(received[k]))
    /\ Len(save_arg) < Len(received)

\* C3: after a non-200 status fetch_news has returned the empty sequence,
\* whatever posts held, and no further request is issued.
C3_AbortOnNon200 ==
    /\ [](Aborted => /\ Returned /\ all_posts = <<>>
                     /\ requested[Len(requested)] = page)
    /\ [][Aborted => requested' = requested]_vars
C3_Witness ==
    /\ Aborted /\ pc = "done"
    /\ Len(requested) >= 2 /\ posts # <<>> /\ all_posts = <<>>

\* C4: the run and the same run on the responses without their unparseable
\* items agree on the records, the termination flag, the pages requested and
\* the result, on every page, pages above the ceiling included.
C4_UnparseableIgnored ==
    /\ s_posts = posts /\ s_finished = finished
    /\ s_page = page /\ s_requested = requested
    /\ s_ret = all_posts
    /\ s_pc = (IF pc = "done" THEN "returned" ELSE pc)
C4_Witness ==
    /\ pc = "for" /\ page > PageCeiling
    /\ idx > 0 /\ idx = Len(data)
    /\ \A j \in 1..idx : ~Parseable(data[j])
    /\ ~finished /\ posts # <<>>

\* C5: fetch_news eventually returns, for every sequence of responses.
C5_Terminates == <>Returned

\* C6: save_to_files uses exactly one destination: with a bucket one
\* put_object and no local write (also when the upload fails), without a
\* bucket one local write and no put_object.
C6_OneDestination ==
    /\ pc # "done" => Len(s3_puts) = 0 /\ local_writes = 0
    /\ pc = "done" =>
         IF Truthy(bucket_name)
         THEN /\ Len(s3_puts) = 1 /\ s3_puts[1].Body = dumps(save_arg)
              /\ local_writes = 0 /\ local_file \in {"absent", "old"}
         ELSE /\ Len(s3_puts) = 0 /\ put_outcome = "none"
              /\ local_writes = 1 /\ local_file = dumps(save_arg)
C6_Witness ==
    /\ pc = "done" /\ Truthy(bucket_name) /\ put_outcome = "ClientError"
    /\ Len(s3_puts) = 1 /\ local_writes = 0

\* C7 (as stated): after a failed upload save_to_files has reported the
\* condition and returned a value different from the one it returns after a
\* successful upload or local write.
C7_FailureSignal ==
    (pc = "done" /\ put_outcome = "ClientError")
    => /\ \E i \in 1..Len(log) : log[i] = <<"error", "s3">>
       /\ save_ret # SaveReturn("ok") /\ save_ret # SaveReturn("none")

\* C7 (amended): save_to_files returns None on every path; a failed upload is
\* reported in the log, and only there.
C7_LogOnly ==
    pc = "done" =>
      /\ save_ret = "None"
      /\ (put_outcome = "ClientError")
           <=> (\E i \in 1..Len(log) : log[i] = <<"error", "s3">>)
      /\ (put_outcome = "ok")
           <=> (\E i \in 1..Len(log) : log[i] = <<"info", "uploaded">>)
C7_Witness ==
    /\ pc = "done" /\ put_outcome = "ClientError" /\ save_ret = "None"
    /\ log[Len(log)] = <<"error", "s3">>

\* C8: pages 1, 2, 3, ... are requested consecutively, once each; after a
\* page has been iterated the loop stops exactly when the page held an item
\* older than start_date or the page number exceeds 11, and otherwise goes on
\* to the next page; items after an older item are still filtered.
C8_StopsExactly ==
    /\ [](\A i \in 1..Len(requested) : requested[i] = i)
    /\ [][(pc = "for" /\ idx = Len(data))
          => /\ (pc' = "returned") <=> (HasOld(data) \/ page > PageCeiling)
             /\ (pc' = "while") => page' = NextPage(page)]_vars
    /\ [][(pc = "for" /\ idx < Len(data) /\ finished
           /\ Parseable(data[idx + 1]) /\ InWindow(TimeOf(data[idx + 1])))
          => Len(posts') = Len(posts) + 1]_vars

\* C9: when every request succeeded, the records are exactly those of the
\* received items with a parseable timestamp in the window, in the order
\* received, neither re-sorted nor de-duplicated.
C9_ExactSubsequence ==
    /\ ~Aborted => posts = WindowRecords(Iterated)
    /\ (Returned /\ ~Aborted) => all_posts = WindowRecords(received)
C9_Witness ==
    /\ pc = "returned" /\ ~Aborted
    /\ Len(requested) >= 2
    /\ Len(all_posts) = 3
    /\ all_posts[1] = all_posts[2]
    /\ DateOf(all_posts[2]) < DateOf(all_posts[3])

\* C10: every run calls fetch_news and then save_to_files, once each, the
\* latter with the sequence the former returned; after a non-200 status the
\* one document written is the empty array.
C10_FetchThenSaveOnce ==
    /\ [](/\ save_calls <= 1
          /\ save_calls = 1 => (pc = "done" /\ save_arg = all_posts)
          /\ (save_calls = 1 /\ Aborted) => save_arg = <<>>)
    /\ <>(save_calls = 1)

====
